---- MODULE Spec2Model ----
(***************************************************************************)
(* Authentication, session and rate-limiting core of the Open Denkaru EMR  *)
(* backend: the sliding-window RateLimiter (app/core/rate_limiter.py), the *)
(* SecurityManager token service (app/core/security.py) and the login /    *)
(* logout / refresh / change-password handlers (app/api/endpoints/auth.py).*)
(* Also modelled: the bearer-token dependency of app/api/auth_deps.py, the *)
(* user_roles table with role and MFA writes made outside the endpoints,   *)
(* and MedicalDataEncryption (app/core/encryption.py), whose rotate_keys   *)
(* is split at the assignment of master_key and the re-derivation loop.    *)
(*                                                                         *)
(* Time is an integer clock.  Every handler reads the clock once and runs  *)
(* as one step; is_rate_limited is split where the code is split: the read *)
(* of time.time() and the MULTI/EXEC pipeline.                             *)
(***************************************************************************)
EXTENDS Integers, Sequences, FiniteSets, TLC

\* Python's None where the code holds an optional timestamp or id
None == 0 - 1

(***************************************************************************)
(* Bounds of the model                                                     *)
(***************************************************************************)
MaxTime == 4            \* last value of the rate limiter's clock
MaxCalls == 5           \* is_rate_limited calls per behaviour
MaxFailures == 1        \* store failures (RedisError) per behaviour
max_requests == 2       \* limit_config["requests"] of the modelled class
window_seconds == 3     \* limit_config["window"] of the modelled class

Callers == {"c1", "c2"} \* parallel requests of one client on one limit class

MaxClock == 2           \* last value of the auth handlers' clock
MaxSessions == 2        \* rows of user_sessions per behaviour
MaxTokens == 3          \* tokens minted per behaviour
MaxFailed == 5          \* cap on failed_login_attempts
\* Durations in clock ticks, scaled down from the configured ones.
\* The handlers read settings.access_token_expire_minutes and
\* settings.refresh_token_expire_days while app/core/config.py declares
\* ACCESS_TOKEN_EXPIRE_MINUTES and REFRESH_TOKEN_EXPIRE_DAYS; the model takes
\* the lookups to yield the declared values (modelling assumption).
LockoutDuration == 2    \* timedelta(minutes=30)
AccessTokenExpire == 1  \* ACCESS_TOKEN_EXPIRE_MINUTES = 15
RefreshTokenExpire == 2 \* REFRESH_TOKEN_EXPIRE_DAYS = 7

LockoutThreshold == 5   \* failed attempts that lock the account

MaxAttempts == 6        \* wrong-password logins per behaviour of concurrent logins
Workers == {"w1", "w2"} \* login requests in flight at the same time

Users == {1}            \* ids of the accounts in the user store
RoleNames == {"doctor", "nurse", "admin"}   \* roles.name of the seeded roles in use

MaxBlobs == 2           \* blobs encrypt_field returns per behaviour
MaxRandom == 3          \* secrets.token_bytes values (master keys, nonces) per behaviour
\* Plaintexts the callers encrypt, as code points: "Ta" and two characters of
\* a Japanese name followed by an emoji (1-, 3- and 4-byte UTF-8)
Plaintexts ==
    {[kind |-> "str", s |-> <<84, 97>>, nonce |-> 0,
      key |-> [master |-> 0, salt |-> ""], bytes |-> <<>>, intact |-> TRUE],
     [kind |-> "str", s |-> <<30000, 20013, 128512, 233>>, nonce |-> 0,
      key |-> [master |-> 0, salt |-> ""], bytes |-> <<>>, intact |-> TRUE]}
\* field_type arguments of the callers
FieldTypes == {"patient_name", "patient_phone", "unknown_type"}
UnknownUser == 0        \* a username no account has
Passwords == {"DoctorPassword123!", "LongEnoughPassw0rd!", "short1!",
              "nocapitalsnodigits"}
\* Passwords the clients try
LoginPasswords == {"DoctorPassword123!", "LongEnoughPassw0rd!"}
NewPasswords == {"LongEnoughPassw0rd!", "short1!", "nocapitalsnodigits"}
MfaTokens == {"none", "valid", "invalid"}   \* no token, current TOTP code, other code

VARIABLES
    rl_now,     \* int(time.time())
    zset,       \* members of the Redis sorted set redis_key (member = str(score))
    ttl,        \* time at which Redis drops redis_key, or None
    pc,         \* per caller: "idle", or "read" once `now` was taken
    cnow,       \* per caller: the value of `now` it read
    cstart,     \* per caller: how many calls had completed when it read `now`
    hist,       \* completed is_rate_limited calls, in the order of their pipelines
    clock,      \* datetime.now(timezone.utc) of the auth handlers
    users,      \* table users: account id -> row
    sessions,   \* table user_sessions: sequence of rows, id = position
    tokens,     \* the tokens the service has returned to clients
    njti,       \* number of jti values drawn so far
    streak,     \* per account: consecutive password mismatches (history)
    last,       \* the most recent request and its response (history)
    lpc,        \* per login in flight: "idle", or "loaded" once the row was read
    lrow,       \* per login in flight: the users row it loaded
    lpw,        \* per login in flight: the password it carries
    increments, \* wrong-password logins that have committed (history)
    user_roles, \* table user_roles joined with roles: account id -> role names
    master_key,         \* MedicalDataEncryption.master_key
    encryption_keys,    \* MedicalDataEncryption.encryption_keys
    master_key_file,    \* content of STORAGE_PATH/.master_key
    rotating,           \* position of a running rotate_keys in data_types, 0: none
    nrandom,            \* number of secrets.token_bytes values drawn so far
    made,               \* the encrypt_field calls that returned a blob (history)
    enc_last            \* the most recent call on the encryption service (history)

rlvars == <<rl_now, zset, ttl, pc, cnow, cstart, hist>>

authvars == <<clock, users, sessions, tokens, njti, streak, last, user_roles>>

convars == <<lpc, lrow, lpw, increments>>

encvars == <<master_key, encryption_keys, master_key_file, rotating, nrandom,
             made, enc_last>>

vars == <<rl_now, zset, ttl, pc, cnow, cstart, hist,
          clock, users, sessions, tokens, njti, streak, last,
          lpc, lrow, lpw, increments, user_roles,
          master_key, encryption_keys, master_key_file, rotating, nrandom,
          made, enc_last>>

(***************************************************************************)
(* RateLimiter                                                             *)
(***************************************************************************)
Max(a, b) == IF a >= b THEN a ELSE b

\* Redis drops a key whose EXPIRE time has passed.
LiveSet == IF ttl # None /\ rl_now >= ttl THEN {} ELSE zset

\* ZREMRANGEBYSCORE key lo hi: both ends inclusive.
zremrangebyscore(set, lo, hi) == {m \in set : ~(lo <= m /\ m <= hi)}

\* ZADD key {str(now): now}: the member is the timestamp's text, so a second
\* request in the same second overwrites the member instead of adding one.
zadd(set, now) == set \cup {now}

NoInfo == [limit |-> 0, remaining |-> 0, reset |-> 0, window |-> 0, empty |-> TRUE]

RateInfo(now, current_requests) ==
    [limit |-> max_requests,
     remaining |-> Max(0, max_requests - current_requests - 1),
     reset |-> now + window_seconds,
     window |-> window_seconds,
     empty |-> FALSE]

\* The outcome of the try block for the count the pipeline returned.
LimitedResult(now, current_requests) ==
    [limited |-> current_requests >= max_requests,
     info |-> RateInfo(now, current_requests)]

\* a limiter that fails closed
RedisErrorResultClosed == [limited |-> TRUE, info |-> NoInfo]

\* except redis.RedisError: fail open.
RedisErrorResult == [limited |-> FALSE, info |-> NoInfo]

\* now = int(time.time()); window_start = now - window_seconds
RLRead(c) ==
    /\ pc[c] = "idle"
    /\ Len(hist) + Cardinality({d \in Callers : pc[d] = "read"}) < MaxCalls
    /\ pc' = [pc EXCEPT ![c] = "read"]
    /\ cnow' = [cnow EXCEPT ![c] = rl_now]
    /\ cstart' = [cstart EXCEPT ![c] = Len(hist)]
    /\ UNCHANGED <<rl_now, zset, ttl, hist>>
    /\ UNCHANGED authvars
    /\ UNCHANGED convars
    /\ UNCHANGED encvars

\* pipe.execute(): ZREMRANGEBYSCORE, ZCARD, ZADD, EXPIRE in one MULTI/EXEC.
\* outcome "ok": the reply arrives; "conn": the store is unreachable, nothing
\* ran; "timeout": the transaction ran but the reply was lost.
RLExec(c, outcome) ==
    /\ pc[c] = "read"
    /\ outcome # "ok" => Cardinality({i \in 1..Len(hist) : hist[i].failed}) < MaxFailures
    /\ LET now == cnow[c]
           window_start == now - window_seconds
           pruned == zremrangebyscore(LiveSet, 0, window_start)
           current_requests == Cardinality(pruned)
           res == IF outcome = "ok" THEN LimitedResult(now, current_requests)
                                    ELSE RedisErrorResult
       IN /\ IF outcome = "conn"
                THEN UNCHANGED <<zset, ttl>>
                ELSE /\ zset' = zadd(pruned, now)
                     /\ ttl' = rl_now + window_seconds + 1
          /\ hist' = Append(hist, [t |-> now, start |-> cstart[c],
                                   seen |-> current_requests,
                                   failed |-> outcome # "ok",
                                   limited |-> res.limited, info |-> res.info])
    /\ pc' = [pc EXCEPT ![c] = "idle"]
    /\ cnow' = [cnow EXCEPT ![c] = 0]
    /\ cstart' = [cstart EXCEPT ![c] = 0]
    /\ UNCHANGED rl_now
    /\ UNCHANGED authvars
    /\ UNCHANGED convars
    /\ UNCHANGED encvars

RLTick ==
    /\ rl_now < MaxTime
    /\ rl_now' = rl_now + 1
    /\ UNCHANGED <<zset, ttl, pc, cnow, cstart, hist>>
    /\ UNCHANGED authvars
    /\ UNCHANGED convars
    /\ UNCHANGED encvars

(***************************************************************************)
(* Properties of the RateLimiter                                           *)
(***************************************************************************)
Calls == 1..Len(hist)
Answered(i) == ~hist[i].failed
Allowed(i) == ~hist[i].failed /\ ~hist[i].limited
AllowedIn(lo, hi) == {i \in Calls : Allowed(i) /\ lo <= hist[i].t /\ hist[i].t < hi}
MaxT(S) == CHOOSE m \in {hist[i].t : i \in S} : \A i \in S : hist[i].t <= m

\* C3: for the fixed key, at most max_requests of the calls the store answered
\* are allowed with timestamps inside any interval of window_seconds seconds,
\* several calls in one clock second included.
C3_AtMostNPerWindow ==
    \A s \in 0..MaxTime :
        Cardinality(AllowedIn(s, s + window_seconds)) <= max_requests

\* C4: of two parallel callers with the same timestamp, the first of which
\* found max_requests - 1 entries in the window, at most one is allowed.
C4_OneParallelCallerAllowed ==
    \A i \in Calls : \A j \in Calls :
        (/\ i < j
         /\ hist[j].start < i
         /\ hist[i].t = hist[j].t
         /\ Answered(i) /\ Answered(j)
         /\ hist[i].seen = max_requests - 1)
        => ~(Allowed(i) /\ Allowed(j))

\* C5: while the store answers, once max_requests requests were allowed and
\* window_seconds seconds have passed since the last of them, the next request
\* is allowed, whatever was rejected in the meantime.
C5_AllowedAfterWindow ==
    \A j \in Calls :
        LET A == {i \in 1..(j - 1) : Allowed(i)}
        IN (/\ \A k \in 1..j : Answered(k)
            /\ Cardinality(A) >= max_requests
            /\ hist[j].t >= MaxT(A) + window_seconds
            /\ \A k \in 1..(j - 1) : hist[k].t < MaxT(A) + window_seconds)
           => ~hist[j].limited

\* C6: a call during which the store raised is not limited and carries empty
\* rate info, whatever the window held.
C6_FailOpen ==
    \A i \in Calls : hist[i].failed => (~hist[i].limited /\ hist[i].info.empty)

\* C6 witness: the store failed on a call that found the window full.
C6_Witness ==
    \E i \in Calls : hist[i].failed /\ hist[i].seen >= max_requests

\* The call that a step completed
Completed(h) == h[Len(h)]

\* C22: a rejected check inserts nothing: it leaves in the key's window the
\* entries that were there and have not expired, and only an allowed check
\* adds its timestamp.
C22_RejectedInsertsNothing ==
    [][(Len(hist') = Len(hist) + 1 /\ ~Completed(hist').failed)
       => LET now == Completed(hist').t
              pruned == zremrangebyscore(LiveSet, 0, now - window_seconds)
          IN IF Completed(hist').limited
             THEN zset' = pruned
             ELSE zset' = pruned \cup {now}
      ]_vars

InitRL ==
    /\ rl_now = 0
    /\ zset = {}
    /\ ttl = None
    /\ pc = [c \in Callers |-> "idle"]
    /\ cnow = [c \in Callers |-> 0]
    /\ cstart = [c \in Callers |-> 0]
    /\ hist = <<>>

NextRL ==
    \/ \E c \in Callers : RLRead(c)
    \/ \E c \in Callers : \E outcome \in {"ok", "conn", "timeout"} : RLExec(c, outcome)
    \/ RLTick

(***************************************************************************)
(* SecurityManager                                                         *)
(***************************************************************************)
\* Text values carried in claims.  str(uuid) gives the 36-character text of a
\* UUID; secrets.token_urlsafe(16) gives 22 URL-safe base64 characters.
NoClaim == [kind |-> "absent", v |-> 0]
str(uuid) == [kind |-> "uuidtext", v |-> uuid]
token_urlsafe(k) == [kind |-> "urlsafe22", v |-> k]

\* uuid.UUID(text): the value for the text of a UUID, ValueError for any text
\* that is not 32 hexadecimal digits (hyphens aside).
ValueError == 0 - 2
UUID(text) == IF text.kind = "uuidtext" THEN text.v ELSE ValueError

\* Argon2 hashes: the password they were made from and the parameters used.
hash_password(password) == [pw |-> password, params |-> "current"]
verify_password(password, hashed) == hashed.pw = password
needs_rehash(hashed) == hashed.params # "current"

\* The characters of the modelled passwords.
PwChars(password) ==
    CASE password = "DoctorPassword123!" ->
            [len |-> 18, upper |-> TRUE, lower |-> TRUE, digit |-> TRUE, special |-> TRUE]
      [] password = "LongEnoughPassw0rd!" ->
            [len |-> 19, upper |-> TRUE, lower |-> TRUE, digit |-> TRUE, special |-> TRUE]
      [] password = "nocapitalsnodigits" ->
            [len |-> 18, upper |-> FALSE, lower |-> TRUE, digit |-> FALSE, special |-> FALSE]
      [] OTHER ->   \* "short1!"
            [len |-> 7, upper |-> FALSE, lower |-> TRUE, digit |-> TRUE, special |-> TRUE]

PASSWORD_MIN_LENGTH == 14

validate_password_strength(password) ==
    LET c == PwChars(password)
    IN  (IF c.len < PASSWORD_MIN_LENGTH THEN {"length"} ELSE {})
        \cup (IF ~c.upper THEN {"uppercase"} ELSE {})
        \cup (IF ~c.lower THEN {"lowercase"} ELSE {})
        \cup (IF ~c.digit THEN {"number"} ELSE {})
        \cup (IF ~c.special THEN {"special"} ELSE {})

\* a TOTP check that accepts any code
verify_mfa_token_any_code(secret, token) == TRUE

\* totp.verify(token, valid_window=1)
verify_mfa_token(secret, token) == token = "valid"

NoToken ==
    [type |-> "none", sub |-> NoClaim, exp |-> None, iat |-> None, nbf |-> None,
     jti |-> NoClaim, session_id |-> NoClaim, permissions |-> <<>>,
     mfa |-> FALSE, signed |-> FALSE, origin |-> 0]

\* `origin` is not a claim: it records the session whose login or refresh
\* returned the token, for the properties below.
create_access_token(user_id, permissions, mfa_verified, now, k, origin) ==
    [type |-> "access", sub |-> str(user_id),
     exp |-> now + AccessTokenExpire, iat |-> now, nbf |-> now,
     jti |-> token_urlsafe(k), session_id |-> NoClaim,
     permissions |-> permissions, mfa |-> mfa_verified,
     signed |-> TRUE, origin |-> origin]

\* a refresh token that is not bound to the session it was made for
create_refresh_token_unbound(user_id, session_id, now, k) ==
    [type |-> "refresh", sub |-> str(user_id),
     exp |-> now + RefreshTokenExpire, iat |-> now, nbf |-> None,
     jti |-> token_urlsafe(k), session_id |-> str(0), permissions |-> <<>>,
     mfa |-> FALSE, signed |-> TRUE, origin |-> session_id]

create_refresh_token(user_id, session_id, now, k) ==
    [type |-> "refresh", sub |-> str(user_id),
     exp |-> now + RefreshTokenExpire, iat |-> now, nbf |-> None,
     jti |-> token_urlsafe(k), session_id |-> str(session_id),
     permissions |-> <<>>, mfa |-> FALSE, signed |-> TRUE, origin |-> session_id]

\* jwt.decode with RS256 and the public key: signature, exp, nbf, required claims
jwt_decode_ok(token, now) ==
    /\ token.signed
    /\ token.exp # None /\ ~(token.exp < now)
    /\ token.nbf # None => ~(token.nbf > now)
    /\ token.iat # None
    /\ token.sub # NoClaim
    /\ token.type # "none"

\* a verify_token that forgets the type check
verify_token_any_type(token, token_type, now) == jwt_decode_ok(token, now)

\* TRUE iff verify_token returns the claims, FALSE iff it raises JWTError
verify_token(token, token_type, now) ==
    /\ jwt_decode_ok(token, now)
    /\ token.type = token_type

(***************************************************************************)
(* Requests and responses                                                  *)
(***************************************************************************)
NoReq ==
    [op |-> "none", at |-> 0, user |-> 0, status |-> 0, detail |-> "none",
     branch |-> "none", tok |-> 0, verified |-> FALSE,
     access |-> 0, refresh |-> 0, session |-> 0,
     mfa_required |-> FALSE, pw_ok |-> FALSE, new_ok |-> FALSE,
     pre_failed |-> 0, pre_locked |-> None,
     mfa_token |-> "none", new_password |-> "none", errors |-> {},
     audit |-> "none", audit_user |-> 0, audit_ok |-> TRUE,
     was_active |-> FALSE]

Req(op) == [NoReq EXCEPT !.op = op, !.at = clock]

\* Responses name tokens by the number of their jti (0: no token)
Jti(token) == token.jti.v
TokenOf(k) == IF k = 0 THEN NoToken ELSE CHOOSE t \in tokens : t.jti.v = k

\* What the client can put in a request: a token it was given, or a string
\* that does not carry the server's signature.
Presentable == tokens \cup {NoToken}

Min(a, b) == IF a <= b THEN a ELSE b

\* log_audit(db, action, user_id, ...): db.add(AuditLog(...)); await db.commit().
\* audit_ok is whether that commit succeeded; user_id 0 stands for None.
log_audit(req, action, user_id, audit_ok) ==
    [req EXCEPT !.audit = action, !.audit_user = user_id, !.audit_ok = audit_ok]

\* The response after the handler's log_audit call: the handler's own answer,
\* or 500 when the exception of the audit commit left the handler.
Answer(req, status, detail) ==
    IF req.audit_ok
    THEN [req EXCEPT !.status = status, !.detail = detail]
    ELSE [req EXCEPT !.status = 500, !.detail = "Internal Server Error"]

(***************************************************************************)
(* get_current_user (app/api/endpoints/auth.py)                            *)
(***************************************************************************)
Unauthorized(verified) ==
    [status |-> 401, id |-> 0, current_session_id |-> 0, verified |-> verified]

get_current_user(token) ==
    IF ~verify_token(token, "access", clock) THEN Unauthorized(FALSE)
    ELSE LET user_id == UUID(token.sub)
         IN IF user_id = ValueError THEN Unauthorized(TRUE)
            ELSE IF user_id \notin Users \/ ~users[user_id].is_active
                 THEN Unauthorized(TRUE)
            \* current_session_id=UUID(claims.get("jti", ...))
            ELSE IF UUID(token.jti) = ValueError THEN Unauthorized(TRUE)
            ELSE [status |-> 200, id |-> user_id,
                  current_session_id |-> UUID(token.jti), verified |-> TRUE]

(***************************************************************************)
(* get_current_user (app/core/auth_deps.py), the dependency of the patient *)
(* and medical-record routes                                               *)
(***************************************************************************)
\* verify_token(..., "access"), UUID(sub), session.get(User, user_id).  (On
\* the AsyncSession that get_session yields the un-awaited session.get gives
\* a coroutine, which is never None; the subjects of the tokens the service
\* issues all have a users row, so `user is None` fails either way.)
auth_deps_get_current_user(token) ==
    IF ~verify_token(token, "access", clock) THEN Unauthorized(FALSE)
    ELSE LET user_id == UUID(token.sub)
         IN IF user_id = ValueError THEN Unauthorized(TRUE)
            ELSE IF user_id \notin Users THEN Unauthorized(TRUE)
            ELSE [status |-> 200, id |-> user_id,
                  current_session_id |-> 0, verified |-> TRUE]

(***************************************************************************)
(* login                                                                   *)
(***************************************************************************)
Range(f) == {f[i] : i \in DOMAIN f}

\* The rows of select(Role).join(UserRole).where(UserRole.user_id == ...): the
\* roles of the account once each, in an order the store chooses
RoleOrders(R) == {order \in [1..Cardinality(R) -> R] : Range(order) = R}

\* if role.name == "doctor": ... elif role.name == "nurse": ...
RolePermissions(name) ==
    CASE name = "doctor" -> <<"read_patient", "write_patient", "write_prescription">>
      [] name = "nurse" -> <<"read_patient", "update_patient", "read_prescription">>
      [] OTHER -> <<>>

\* a resolution that grants nothing
ResolvePermissionsNone(roles) == <<>>

\* permissions = []; for role in result.scalars(): permissions.extend(...)
RECURSIVE ResolvePermissions(_)
ResolvePermissions(roles) ==
    IF roles = <<>> THEN <<>>
    ELSE RolePermissions(Head(roles)) \o ResolvePermissions(Tail(roles))

\* a lock test with the comparison turned round
IsLockedInverted(user, now) == user.locked_until # None /\ user.locked_until < now

\* user.locked_until and user.locked_until > datetime.now(timezone.utc)
IsLocked(user, now) == user.locked_until # None /\ user.locked_until > now

\* a rehash step that also counts a failed attempt
RehashedCountingFailure(user, password) ==
    [user EXCEPT !.failed_login_attempts = Min(@ + 1, MaxFailed)]

\* if security.needs_rehash(user.hashed_password): rehash
Rehashed(user, password) ==
    IF needs_rehash(user.hashed_password)
    THEN [user EXCEPT !.hashed_password = hash_password(password)]
    ELSE user

FailedLogin(user, now) ==
    LET n == user.failed_login_attempts + 1
    IN [user EXCEPT !.failed_login_attempts = n,
                    !.locked_until = IF n >= LockoutThreshold
                                     THEN now + LockoutDuration ELSE @]

\* a login that forgets to clear the lock state
SuccessfulLoginKeepsCounters(user, now) == user

\* a login that resets the counter and leaves the lock time
SuccessfulLoginKeepsLock(user, now) == [user EXCEPT !.failed_login_attempts = 0]

SuccessfulLogin(user, now) ==
    [user EXCEPT !.failed_login_attempts = 0,
                 !.locked_until = None]

\* a rejection that tells the caller why
InvalidCredentialsRevealing(req) ==
    Answer(req, 401, IF req.branch = "wrong_password" THEN "Invalid credentials"
                     ELSE IF req.user \in Users THEN "Account locked"
                     ELSE "Unknown user")

\* raise HTTPException(status_code=401, detail="Invalid credentials")
InvalidCredentials(req) == Answer(req, 401, "Invalid credentials")

LoginReq(username, password) ==
    IF username \in Users
    THEN [Req("login") EXCEPT !.user = username,
                !.pw_ok = verify_password(password, users[username].hashed_password),
                !.pre_failed = users[username].failed_login_attempts,
                !.pre_locked = users[username].locked_until,
                !.was_active = users[username].is_active]
    ELSE Req("login")

LoginUnknownOrLocked(username, password, mfa_token, audit_ok) ==
    /\ IF username \in Users THEN IsLocked(users[username], clock) ELSE TRUE
    /\ last' = InvalidCredentials(
                  log_audit([LoginReq(username, password) EXCEPT
                                !.branch = "unknown_or_locked"],
                            "login_failed", 0, audit_ok))
    /\ UNCHANGED <<clock, users, sessions, tokens, njti, streak>>

LoginWrongPassword(username, password, mfa_token, audit_ok) ==
    /\ username \in Users
    /\ ~IsLocked(users[username], clock)
    /\ ~verify_password(password, users[username].hashed_password)
    /\ users[username].failed_login_attempts < MaxFailed
    /\ users' = [users EXCEPT ![username] = FailedLogin(@, clock)]
    /\ streak' = [streak EXCEPT ![username] = Min(@ + 1, LockoutThreshold)]
    \* await db.commit() comes before log_audit
    /\ last' = InvalidCredentials(
                  log_audit([LoginReq(username, password) EXCEPT
                                !.branch = "wrong_password"],
                            "login_failed", username, audit_ok))
    /\ UNCHANGED <<clock, sessions, tokens, njti>>

LoginMfaRequired(username, password, mfa_token, audit_ok) ==
    /\ username \in Users
    /\ ~IsLocked(users[username], clock)
    /\ verify_password(password, users[username].hashed_password)
    /\ users[username].mfa_enabled /\ mfa_token = "none"
    \* the rehash is committed by the commit of log_audit
    /\ users' = IF audit_ok THEN [users EXCEPT ![username] = Rehashed(@, password)]
                 ELSE users
    /\ streak' = [streak EXCEPT ![username] = 0]
    /\ last' = Answer(log_audit([LoginReq(username, password) EXCEPT
                                   !.branch = "mfa_required",
                                   !.mfa_token = mfa_token,
                                   !.mfa_required = audit_ok],
                               "login_mfa_required", username, audit_ok),
                     200, "ok")
    /\ UNCHANGED <<clock, sessions, tokens, njti>>

LoginMfaFailed(username, password, mfa_token, audit_ok) ==
    /\ username \in Users
    /\ ~IsLocked(users[username], clock)
    /\ verify_password(password, users[username].hashed_password)
    /\ users[username].mfa_enabled /\ mfa_token # "none"
    /\ ~verify_mfa_token(users[username].mfa_secret, mfa_token)
    /\ users' = IF audit_ok THEN [users EXCEPT ![username] = Rehashed(@, password)]
                 ELSE users
    /\ streak' = [streak EXCEPT ![username] = 0]
    /\ last' = Answer(log_audit([LoginReq(username, password) EXCEPT
                                   !.branch = "mfa_failed",
                                   !.mfa_token = mfa_token],
                               "login_mfa_failed", username, audit_ok),
                     401, "Invalid MFA token")
    /\ UNCHANGED <<clock, sessions, tokens, njti>>

\* UserSession(user_id=..., expires_at=now + refresh_token_expire_days); the
\* row's id, is_active and revoked_at are the model's defaults.
NewSession(id, user_id, now) ==
    [id |-> id, user_id |-> user_id,
     expires_at |-> now + RefreshTokenExpire,
     last_accessed_at |-> now,
     is_active |-> TRUE, revoked_at |-> None]

LoginSuccess(username, password, mfa_token, audit_ok) ==
    /\ username \in Users
    /\ ~IsLocked(users[username], clock)
    /\ verify_password(password, users[username].hashed_password)
    /\ users[username].mfa_enabled =>
            (mfa_token # "none" /\ verify_mfa_token(users[username].mfa_secret, mfa_token))
    /\ Len(sessions) < MaxSessions
    /\ njti + 2 <= MaxTokens
    /\ \E roles \in RoleOrders(user_roles[username]) :
       LET sid == Len(sessions) + 1
           access_token == create_access_token(username,
                               ResolvePermissions(roles),
                               users[username].mfa_enabled /\ mfa_token # "none",
                               clock, njti + 1, sid)
           refresh_token == create_refresh_token(username, sid, clock, njti + 2)
       IN /\ sessions' = Append(sessions, NewSession(sid, username, clock))
          /\ users' = [users EXCEPT
                          ![username] = SuccessfulLogin(Rehashed(@, password), clock)]
          \* await db.commit() comes before log_audit; the tokens reach the
          \* client only in the TokenResponse
          /\ tokens' = IF audit_ok THEN tokens \cup {access_token, refresh_token}
                        ELSE tokens
          /\ njti' = njti + 2
          /\ last' = Answer(log_audit([LoginReq(username, password) EXCEPT
                                  !.branch = "success",
                                  \* read only behind `user.mfa_enabled and`
                                  !.mfa_token = IF users[username].mfa_enabled
                                                THEN mfa_token ELSE "none",
                                  !.access = IF audit_ok THEN Jti(access_token) ELSE 0,
                                  !.refresh = IF audit_ok THEN Jti(refresh_token) ELSE 0,
                                  !.session = sid],
                              "login_success", username, audit_ok),
                           200, "ok")
    /\ streak' = [streak EXCEPT ![username] = 0]
    /\ UNCHANGED clock

Login(username, password, mfa_token, audit_ok) ==
    \/ LoginUnknownOrLocked(username, password, mfa_token, audit_ok)
    \/ LoginWrongPassword(username, password, mfa_token, audit_ok)
    \/ LoginMfaRequired(username, password, mfa_token, audit_ok)
    \/ LoginMfaFailed(username, password, mfa_token, audit_ok)
    \/ LoginSuccess(username, password, mfa_token, audit_ok)

(***************************************************************************)
(* refresh                                                                 *)
(***************************************************************************)
\* a session lookup that forgets the expiry condition
RefreshSessionNoExpiry(s, user_id, session_id, now) ==
    /\ s.id = session_id
    /\ s.user_id = user_id
    /\ s.is_active

\* select(UserSession).where(id == session_id).where(user_id == user_id)
\*     .where(is_active == True).where(expires_at > now)
RefreshSession(s, user_id, session_id, now) ==
    /\ s.id = session_id
    /\ s.user_id = user_id
    /\ s.is_active
    /\ s.expires_at > now

\* except Exception: log_audit("token_refresh_failed", None, False, str(e));
\* raise HTTPException(401, "Invalid refresh token")
RefreshFailed(req, audit_ok) ==
    Answer(log_audit([req EXCEPT !.branch = "invalid_token"],
                     "token_refresh_failed", 0, audit_ok),
           401, "Invalid refresh token")

\* audit_ok: the commit of the handler's audit write; audit_ok2: the commit of
\* the audit write of `except Exception`, reached when the first one raised.
RefreshToken(token, audit_ok, audit_ok2) ==
    LET verified == verify_token(token, "refresh", clock)
        user_id == UUID(token.sub)
        session_id == UUID(token.session_id)
        found == {i \in 1..Len(sessions) :
                     RefreshSession(sessions[i], user_id, session_id, clock)}
        req == [Req("refresh") EXCEPT !.tok = Jti(token), !.verified = verified]
    IN  IF ~verified \/ user_id = ValueError \/ session_id = ValueError
        THEN /\ last' = RefreshFailed(req, audit_ok)
             /\ UNCHANGED <<clock, users, sessions, tokens, njti, streak>>
        \* the HTTPException of the two checks below is re-raised as it is
        ELSE IF found = {}
        THEN /\ last' = [req EXCEPT !.status = 401, !.user = user_id,
                                    !.detail = "Invalid or expired session",
                                    !.branch = "no_session"]
             /\ UNCHANGED <<clock, users, sessions, tokens, njti, streak>>
        ELSE IF user_id \notin Users \/ ~users[user_id].is_active
        THEN /\ last' = [req EXCEPT !.status = 401, !.user = user_id,
                                    !.detail = "User not found or inactive",
                                    !.branch = "no_user"]
             /\ UNCHANGED <<clock, users, sessions, tokens, njti, streak>>
        ELSE /\ njti + 1 <= MaxTokens
             /\ \E roles \in RoleOrders(user_roles[user_id]) :
                LET access_token == create_access_token(user_id,
                                        ResolvePermissions(roles),
                                        users[user_id].mfa_enabled, clock,
                                        njti + 1, session_id)
                    done == [req EXCEPT !.user = user_id, !.session = session_id]
                IN /\ tokens' = IF audit_ok THEN tokens \cup {access_token} ELSE tokens
                   /\ last' = IF audit_ok
                               THEN Answer(log_audit([done EXCEPT
                                                !.branch = "success",
                                                !.access = Jti(access_token),
                                                !.refresh = Jti(token)],
                                            "token_refresh", user_id, TRUE),
                                           200, "ok")
                               \* audit_ok stays FALSE: a write of this request failed
                               ELSE [RefreshFailed(done, audit_ok2) EXCEPT
                                        !.audit_ok = FALSE]
             /\ njti' = njti + 1
             \* session.last_accessed_at is committed before log_audit
             /\ sessions' = [i \in 1..Len(sessions) |->
                               IF i \in found
                               THEN [sessions[i] EXCEPT !.last_accessed_at = clock]
                               ELSE sessions[i]]
             /\ UNCHANGED <<clock, users, streak>>

(***************************************************************************)
(* Routes behind Depends(get_current_user)                                 *)
(***************************************************************************)
ProtectedReq(op, token, cu) ==
    [Req(op) EXCEPT !.tok = Jti(token), !.verified = cu.verified,
                    !.status = cu.status, !.user = cu.id,
                    !.detail = IF cu.status = 200 THEN "ok"
                               ELSE "Invalid authentication credentials",
                    !.branch = IF cu.status = 200 THEN "success" ELSE "unauthorized"]

\* GET /me and GET /sessions: read only
Me(token) ==
    /\ last' = ProtectedReq("me", token, get_current_user(token))
    /\ UNCHANGED <<clock, users, sessions, tokens, njti, streak>>

\* A request to a route behind Depends(get_current_user) of auth_deps, up to
\* the return of the dependency
VerifyRequest(token) ==
    LET cu == auth_deps_get_current_user(token)
    IN /\ last' = [Req("verify_request") EXCEPT
                      !.tok = Jti(token), !.verified = cu.verified,
                      !.status = cu.status, !.user = cu.id,
                      !.detail = IF cu.status = 200 THEN "ok"
                                 ELSE "Could not validate credentials",
                      !.branch = IF cu.status = 200 THEN "success" ELSE "unauthorized"]
       /\ UNCHANGED <<clock, users, sessions, tokens, njti, streak>>

\* a revocation that stamps the row and leaves it active
RevokedStaysActive(s, now) == [s EXCEPT !.revoked_at = now]

Revoked(s, now) == [s EXCEPT !.is_active = FALSE, !.revoked_at = now]

\* The body of logout for the principal cu that get_current_user returned
LogoutHandler(cu, req, audit_ok) ==
    /\ sessions' = [i \in 1..Len(sessions) |->
                       IF sessions[i].user_id = cu.id /\ sessions[i].is_active
                       THEN Revoked(sessions[i], clock)
                       ELSE sessions[i]]
    \* await db.commit() comes before log_audit
    /\ last' = Answer(log_audit([req EXCEPT !.branch = "success"],
                               "logout", cu.id, audit_ok),
                     200, "ok")
    /\ UNCHANGED <<clock, users, tokens, njti, streak>>

Logout(token) ==
    LET cu == get_current_user(token)
    IN  IF cu.status # 200
        THEN /\ last' = ProtectedReq("logout", token, cu)
             /\ UNCHANGED <<clock, users, sessions, tokens, njti, streak>>
        ELSE \E audit_ok \in BOOLEAN :
                LogoutHandler(cu, ProtectedReq("logout", token, cu), audit_ok)

\* for session in result.scalars(): if session.id != current_user.current_session_id
RevokeOthers(s, cu, now) ==
    IF s.user_id = cu.id /\ s.is_active /\ s.id # cu.current_session_id
    THEN Revoked(s, now)
    ELSE s

\* PasswordChangeRequest: what pydantic reports for new_password.  The
\* min_length of the Field is tested first and the field validator runs only
\* on a value that passed it.
PasswordChangeRequest(new_password) ==
    IF PwChars(new_password).len < PASSWORD_MIN_LENGTH
    THEN {"min_length"}
    ELSE validate_password_strength(new_password)

\* The request body parsed and the body of change_password run for the
\* principal cu that get_current_user returned
ChangePasswordHandler(cu, req0, current_password, new_password, audit_ok) ==
    LET req == [req0 EXCEPT
                   !.pw_ok = verify_password(current_password,
                                             users[cu.id].hashed_password),
                   !.new_ok = validate_password_strength(new_password) = {},
                   !.new_password = new_password]
    IN  IF PasswordChangeRequest(new_password) # {}
        THEN /\ last' = [req EXCEPT !.status = 422, !.detail = "validation",
                                    !.errors = PasswordChangeRequest(new_password),
                                    !.branch = "schema"]
             /\ UNCHANGED <<clock, users, sessions, tokens, njti, streak>>
        ELSE IF ~verify_password(current_password, users[cu.id].hashed_password)
        THEN /\ last' = Answer(log_audit([req EXCEPT !.branch = "wrong_current"],
                                        "password_change_failed", cu.id, audit_ok),
                              400, "Invalid current password")
             /\ UNCHANGED <<clock, users, sessions, tokens, njti, streak>>
        ELSE IF validate_password_strength(new_password) # {}
        THEN /\ last' = [req EXCEPT !.status = 400, !.detail = "errors",
                                    !.errors = validate_password_strength(new_password),
                                    !.branch = "weak_new"]
             /\ UNCHANGED <<clock, users, sessions, tokens, njti, streak>>
        ELSE /\ users' = [users EXCEPT
                            ![cu.id].hashed_password = hash_password(new_password),
                            ![cu.id].password_changed_at = clock]
             /\ sessions' = [i \in 1..Len(sessions) |->
                               RevokeOthers(sessions[i], cu, clock)]
             \* await db.commit() comes before log_audit
             /\ last' = Answer(log_audit([req EXCEPT !.branch = "success"],
                                        "password_change_success", cu.id, audit_ok),
                              200, "Password changed successfully")
             /\ UNCHANGED <<clock, tokens, njti, streak>>

ChangePassword(token, current_password, new_password) ==
    LET cu == get_current_user(token)
        sub == UUID(token.sub)
        req == [ProtectedReq("change_password", token, cu) EXCEPT
                   !.pw_ok = sub \in Users /\
                             verify_password(current_password, users[sub].hashed_password),
                   !.new_ok = validate_password_strength(new_password) = {}]
    IN  IF cu.status # 200
        THEN /\ last' = req
             /\ UNCHANGED <<clock, users, sessions, tokens, njti, streak>>
        ELSE \E audit_ok \in BOOLEAN :
                ChangePasswordHandler(cu, req, current_password, new_password, audit_ok)

Tick ==
    /\ clock < MaxClock
    /\ clock' = clock + 1
    /\ UNCHANGED <<users, sessions, tokens, njti, streak, last>>

(***************************************************************************)
(* Properties of the authentication flow                                   *)
(***************************************************************************)
Protected == {"me", "logout", "change_password"}
LastTok == TokenOf(last.tok)
ActiveSessionsOf(u) ==
    {sessions[i].id : i \in {j \in 1..Len(sessions) :
                                sessions[j].user_id = u /\ sessions[j].is_active}}

\* An unexpired access token that login or refresh issued for an active account
ValidAccess(t, at) ==
    /\ t \in tokens
    /\ t.type = "access"
    /\ t.exp >= at
    /\ UUID(t.sub) \in Users
    /\ users[UUID(t.sub)].is_active

\* C1: the fifth of five consecutive password mismatches on an account sets
\* locked_until to the time of that attempt plus the lockout duration, and a
\* login attempt made before locked_until is rejected, whatever password it
\* carries: it creates no session and returns no token (the answer is 401, or
\* 500 when the audit write of the rejection failed).
C1_LockoutAfterFiveFailures ==
    /\ (/\ last.op = "login"
        /\ last.branch = "wrong_password"
        /\ streak[last.user] >= LockoutThreshold)
       => users[last.user].locked_until = last.at + LockoutDuration
    /\ (/\ last.op = "login"
        /\ last.user \in Users
        /\ last.pre_locked # None
        /\ last.at < last.pre_locked)
       => (/\ last.status \in {401, 500}
           /\ last.session = 0
           /\ last.access = 0
           /\ last.refresh = 0)

\* C1 witness: the right password was refused on an account that five
\* consecutive mismatches had locked.
C1_Witness ==
    /\ last.op = "login"
    /\ last.user \in Users
    /\ last.pw_ok
    /\ streak[last.user] >= LockoutThreshold
    /\ last.pre_locked # None
    /\ last.at < last.pre_locked
    /\ last.status = 401

\* C2: verify_token returns claims only for a token of the expected type:
\* "refresh" at the refresh endpoint, "access" behind get_current_user; and no
\* request is served on a token of the other type.
C2_TokenTypeIsolation ==
    /\ (last.op = "refresh" /\ (last.verified \/ last.status = 200))
       => LastTok.type = "refresh"
    /\ (last.op \in Protected /\ (last.verified \/ last.status = 200))
       => LastTok.type = "access"

\* C2 witness: a signed, unexpired refresh token was shown to get_current_user
\* and refused by verify_token.
C2_Witness ==
    /\ last.op \in Protected
    /\ LastTok.type = "refresh"
    /\ LastTok.signed
    /\ LastTok.exp >= last.at
    /\ ~last.verified
    /\ last.status = 401

C8_ValidAccessTokenAccepted ==
    last.op \in Protected
    => IF ValidAccess(LastTok, last.at)
       THEN last.status # 401 /\ last.user = UUID(LastTok.sub)
       ELSE last.status = 401

C10_RefreshNeedsValidSession ==
    /\ (last.op = "refresh" /\ last.status = 200)
       => \E i \in 1..Len(sessions) :
             /\ sessions[i].id = UUID(LastTok.session_id)
             /\ sessions[i].user_id = UUID(LastTok.sub)
             /\ sessions[i].is_active
             /\ sessions[i].expires_at > last.at
    /\ (last.op = "refresh" /\ last.status # 200) => last.access = 0

\* C10 witness: a refresh token that still verified was refused because its
\* session had expired.
C10_Witness ==
    /\ last.op = "refresh"
    /\ last.verified
    /\ last.status = 401
    /\ last.access = 0
    /\ \E i \in 1..Len(sessions) :
          /\ sessions[i].id = UUID(LastTok.session_id)
          /\ sessions[i].is_active
          /\ sessions[i].expires_at <= last.at

\* The token numbered k among the tokens T
TokenIn(T, k) == IF k = 0 THEN NoToken ELSE CHOOSE t \in T : t.jti.v = k

\* A step of the handler `op`: handlers leave the clock alone and write `last`
Handled(op) == clock' = clock /\ last'.op = op

\* C11: a logout with a valid access token is served, marks every active
\* session of the account inactive with revoked_at = now and leaves every other
\* session as it was; the next refresh with a refresh token of that account is
\* rejected.
C11_LogoutRevokesAllSessions ==
    [][/\ (Handled("logout") /\ ValidAccess(TokenIn(tokens, last'.tok), clock))
          => LET u == UUID(TokenIn(tokens, last'.tok).sub)
             IN /\ last'.status # 401
                /\ Len(sessions') = Len(sessions)
                /\ \A i \in 1..Len(sessions) :
                      IF sessions[i].user_id = u /\ sessions[i].is_active
                      THEN ~sessions'[i].is_active /\ sessions'[i].revoked_at = clock
                      ELSE sessions'[i] = sessions[i]
       /\ (/\ last.op = "logout"
           /\ ValidAccess(LastTok, last.at)
           /\ Handled("refresh")
           /\ TokenIn(tokens, last'.tok).sub = LastTok.sub)
          => last'.status # 200
      ]_vars

NotLockedBefore(req) == req.pre_locked = None \/ req.pre_locked <= req.at

\* C13: on an account with mfa_enabled a login adds a session or returns a
\* token only when the MFA token of that attempt is the valid one; with the
\* right password and no MFA token it adds no session, returns no token and
\* answers mfa_required; with the right password and an invalid MFA token it
\* adds no session, returns no token and is rejected as "Invalid MFA token".
C13_MfaGatesIssuance ==
    [][(/\ Handled("login")
        /\ last'.user \in Users
        /\ users[last'.user].mfa_enabled)
       => /\ (\/ sessions' # sessions \/ tokens' # tokens
               \/ last'.access # 0 \/ last'.refresh # 0)
             => last'.mfa_token = "valid"
          /\ (last'.pw_ok /\ NotLockedBefore(last') /\ last'.mfa_token = "none")
             => /\ sessions' = sessions /\ tokens' = tokens
                /\ last'.access = 0 /\ last'.refresh = 0
                /\ last'.audit_ok => (last'.status = 200 /\ last'.mfa_required)
          /\ (last'.pw_ok /\ NotLockedBefore(last') /\ last'.mfa_token = "invalid")
             => /\ sessions' = sessions /\ tokens' = tokens
                /\ last'.access = 0 /\ last'.refresh = 0
                /\ last'.status \in {401, 500}
                /\ last'.audit_ok => (last'.status = 401 /\
                                      last'.detail = "Invalid MFA token")
      ]_vars

\* C13 witness: the right password came with an invalid MFA token for an
\* account with MFA and the login was rejected for the MFA token.
C13_Witness ==
    /\ last.op = "login"
    /\ last.user \in Users
    /\ users[last.user].mfa_enabled
    /\ last.pw_ok
    /\ last.mfa_token = "invalid"
    /\ last.status = 401
    /\ last.detail = "Invalid MFA token"
    /\ last.session = 0

C16_NoLostIncrement ==
    \A u \in Users :
        (/\ \A w \in Workers : lpc[w] = "idle"
         /\ sessions = <<>>)
        => /\ users[u].failed_login_attempts = increments
           /\ increments >= LockoutThreshold => users[u].locked_until # None

\* C15: a session with is_active false and revoked_at set keeps both under
\* every login, refresh, logout and password change, and a session whose
\* revoked_at is set is inactive.
C15_RevocationIsTerminal ==
    [][/\ Len(sessions') >= Len(sessions)
       /\ \A i \in 1..Len(sessions) :
             (~sessions[i].is_active /\ sessions[i].revoked_at # None)
             => (/\ ~sessions'[i].is_active
                 /\ sessions'[i].revoked_at = sessions[i].revoked_at)
       /\ \A i \in 1..Len(sessions') :
             sessions'[i].revoked_at # None => ~sessions'[i].is_active
      ]_vars

\* C15 witness: a refresh was tried with the refresh token of a session that
\* logout or a password change had revoked, and the session is still revoked.
C15_Witness ==
    /\ last.op = "refresh"
    /\ last.verified
    /\ last.status = 401
    /\ \E i \in 1..Len(sessions) :
          /\ LastTok.session_id = str(sessions[i].id)
          /\ ~sessions[i].is_active
          /\ sessions[i].revoked_at # None
          /\ sessions[i].revoked_at <= last.at
          /\ sessions[i].expires_at > last.at

\* C17: a login for an unknown username, for a locked account or with a wrong
\* password gets one and the same response: 401 "Invalid credentials" without
\* tokens (500 "Internal Server Error" in each of the three cases when the
\* audit write fails).
C17_UniformLoginRejection ==
    (/\ last.op = "login"
     /\ ~(last.user \in Users /\ NotLockedBefore(last) /\ last.pw_ok))
    => /\ last.status = (IF last.audit_ok THEN 401 ELSE 500)
       /\ last.detail = (IF last.audit_ok THEN "Invalid credentials"
                         ELSE "Internal Server Error")
       /\ last.access = 0 /\ last.refresh = 0
       /\ ~last.mfa_required

\* C17 witness: a login with a wrong password for a locked account was
\* answered like one for an unknown username.
C17_Witness ==
    /\ last.op = "login"
    /\ last.user \in Users
    /\ ~NotLockedBefore(last)
    /\ ~last.pw_ok
    /\ last.status = 401
    /\ last.detail = "Invalid credentials"

\* C18: a login adds a session exactly when it returns the access and the
\* refresh token of that session, also when the audit write of the login fails.
C18_NoPartialLogin ==
    [][Handled("login")
       => (Len(sessions') > Len(sessions)
           <=> (last'.access # 0 /\ last'.refresh # 0))
      ]_vars

\* The account a rejected request is known to be about: the account of the
\* username, the subject of a refresh token that verified, the principal
KnownActor(req) ==
    IF req.op = "login" THEN (IF req.user \in Users THEN req.user ELSE 0)
    ELSE IF req.op = "refresh"
         THEN (IF req.verified /\ UUID(TokenOf(req.tok).sub) \in Users
               THEN UUID(TokenOf(req.tok).sub) ELSE 0)
    ELSE req.user

\* C19: while the audit sink works, every login, refresh and password change
\* that the handler rejected has written an audit event, and the event names
\* the account whenever the account is known.
C19_RejectionsAudited ==
    (/\ \/ last.op \in {"login", "refresh"}
        \/ last.op = "change_password" /\ last.branch # "unauthorized"
     /\ last.status # 200
     /\ last.audit_ok)
    => /\ last.audit # "none"
       /\ KnownActor(last) # 0 => last.audit_user = KnownActor(last)

\* C20: a password change whose new password breaks the strength policy is
\* answered 400 with every broken rule of the five, and neither it nor a
\* password change with a wrong current password changes the account or a
\* session.
C20_WeakPasswordRejected ==
    [][(Handled("change_password") /\ last'.branch # "unauthorized")
       => /\ ~last'.new_ok
             => /\ last'.status = 400
                /\ last'.errors = validate_password_strength(last'.new_password)
                /\ users' = users /\ sessions' = sessions
          /\ ~last'.pw_ok => (users' = users /\ sessions' = sessions)
      ]_vars

\* The permissions the roles R resolve to
PermissionSet(R) == UNION {Range(RolePermissions(name)) : name \in R}

C28_MfaFailureAndLockedLeaveCounters ==
    [][(/\ Handled("login")
        /\ last'.user \in Users
        /\ \/ /\ NotLockedBefore(last')
              /\ last'.pw_ok
              /\ users[last'.user].mfa_enabled
              /\ last'.mfa_token = "invalid"
           \/ ~NotLockedBefore(last'))
       => /\ users'[last'.user].failed_login_attempts
                = users[last'.user].failed_login_attempts
          /\ users'[last'.user].locked_until = users[last'.user].locked_until
          /\ sessions' = sessions
      ]_vars

\* C28 witness: after a wrong password, the right password came with an
\* invalid MFA token; the login was rejected for the MFA token and the
\* counter is still the one the wrong password left.
C28_Witness ==
    /\ last.op = "login"
    /\ last.user \in Users
    /\ last.pw_ok
    /\ last.mfa_token = "invalid"
    /\ last.detail = "Invalid MFA token"
    /\ last.pre_failed > 0
    /\ last.pre_locked = None
    /\ users[last.user].failed_login_attempts = last.pre_failed
    /\ users[last.user].locked_until = None

InitialUser(u, mfa, active) ==
    [failed_login_attempts |-> 0, locked_until |-> None,
     hashed_password |-> [pw |-> "DoctorPassword123!", params |-> "legacy"],
     mfa_enabled |-> mfa, mfa_secret |-> u,
     is_active |-> active, password_changed_at |-> 0]

InitAuthWith(MfaFlags, ActiveFlags) ==
    /\ clock = 0
    /\ \E mfa \in MfaFlags : \E active \in ActiveFlags :
          users = [u \in Users |-> InitialUser(u, mfa, active)]
    /\ sessions = <<>>
    /\ tokens = {}
    /\ njti = 0
    /\ streak = [u \in Users |-> 0]
    /\ last = NoReq
    /\ user_roles = [u \in Users |-> {"doctor"}]

\* an account with or without MFA, active or deactivated, whose password
\* was hashed under older Argon2 parameters
InitAuth == InitAuthWith(BOOLEAN, BOOLEAN)

AuthStep ==
    \/ \E username \in Users \cup {UnknownUser} : \E password \in LoginPasswords :
          \E mfa_token \in MfaTokens : \E audit_ok \in BOOLEAN :
             Login(username, password, mfa_token, audit_ok)
    \/ \E token \in Presentable : \E audit_ok \in BOOLEAN : \E audit_ok2 \in BOOLEAN :
          RefreshToken(token, audit_ok, audit_ok2)
    \/ \E token \in Presentable : Me(token)
    \/ \E token \in Presentable : Logout(token)
    \/ \E token \in Presentable : \E current_password \in LoginPasswords :
          \E new_password \in NewPasswords :
             ChangePassword(token, current_password, new_password)
    \/ Tick

NextAuth ==
    /\ AuthStep
    /\ UNCHANGED user_roles /\ UNCHANGED rlvars /\ UNCHANGED convars /\ UNCHANGED encvars

(***************************************************************************)
(* The handlers behind get_current_user taken on their own: logout and     *)
(* change_password are entered with a principal, as FastAPI enters them    *)
(* once the dependency has returned one.  No token the service issues gets *)
(* that far (UUID(jti) in get_current_user), so these steps are steps of   *)
(* the handler functions, not of the deployed routes.                      *)
(***************************************************************************)
\* CurrentUser values for the active accounts; current_session_id is a UUID,
\* here the id of a session row or 0 for any other UUID.
Principals ==
    {[status |-> 200, id |-> u, current_session_id |-> c, verified |-> TRUE] :
        u \in {v \in Users : users[v].is_active}, c \in 0..MaxSessions}

PrincipalReq(op, cu) ==
    [Req(op) EXCEPT !.status = 200, !.user = cu.id, !.verified = TRUE,
                    !.session = cu.current_session_id]

LogoutAs(cu, audit_ok) ==
    LogoutHandler(cu, PrincipalReq("logout", cu), audit_ok)

ChangePasswordAs(cu, current_password, new_password, audit_ok) ==
    ChangePasswordHandler(cu, PrincipalReq("change_password", cu),
                          current_password, new_password, audit_ok)

\* login takes part with the one path that writes user_sessions
HandlerStep ==
    \/ \E username \in Users : \E password \in LoginPasswords :
          \E mfa_token \in MfaTokens : \E audit_ok \in BOOLEAN :
             LoginSuccess(username, password, mfa_token, audit_ok)
    \/ \E token \in Presentable : \E audit_ok \in BOOLEAN : \E audit_ok2 \in BOOLEAN :
          RefreshToken(token, audit_ok, audit_ok2)
    \/ \E cu \in Principals : \E audit_ok \in BOOLEAN : LogoutAs(cu, audit_ok)
    \/ \E cu \in Principals : \E current_password \in LoginPasswords :
          \E new_password \in NewPasswords : \E audit_ok \in BOOLEAN :
             ChangePasswordAs(cu, current_password, new_password, audit_ok)
    \/ \E token \in Presentable : VerifyRequest(token)
    \/ Tick

NextHandlers ==
    /\ HandlerStep
    /\ UNCHANGED user_roles /\ UNCHANGED rlvars /\ UNCHANGED convars /\ UNCHANGED encvars

(***************************************************************************)
(* Administration of the accounts.  login and refresh read users and       *)
(* user_roles; the rows are written outside app/api/endpoints/auth.py:     *)
(* UserRole rows as app/scripts/seed_auth_data.py writes them, and         *)
(* users.mfa_enabled at MFA enrolment.  The steps below are those writes,  *)
(* taken between requests; `last` records them like a request.             *)
(***************************************************************************)
\* db.add(UserRole(user_id=..., role_id=role.id))
GrantRole(u, name) ==
    /\ name \notin user_roles[u]
    /\ user_roles' = [user_roles EXCEPT ![u] = @ \cup {name}]
    /\ last' = [Req("grant_role") EXCEPT !.user = u]
    /\ UNCHANGED <<clock, users, sessions, tokens, njti, streak>>

\* the UserRole row deleted
RevokeRole(u, name) ==
    /\ name \in user_roles[u]
    /\ user_roles' = [user_roles EXCEPT ![u] = @ \ {name}]
    /\ last' = [Req("revoke_role") EXCEPT !.user = u]
    /\ UNCHANGED <<clock, users, sessions, tokens, njti, streak>>

\* users.mfa_enabled set once the account has enrolled a TOTP secret
EnableMfa(u) ==
    /\ ~users[u].mfa_enabled
    /\ users' = [users EXCEPT ![u].mfa_enabled = TRUE]
    /\ last' = [Req("enable_mfa") EXCEPT !.user = u]
    /\ UNCHANGED <<clock, sessions, tokens, njti, streak, user_roles>>

AdministrationStep ==
    \/ \E username \in Users : \E password \in LoginPasswords :
          \E mfa_token \in MfaTokens : \E audit_ok \in BOOLEAN :
             LoginSuccess(username, password, mfa_token, audit_ok) /\ UNCHANGED user_roles
    \/ \E token \in Presentable : \E audit_ok \in BOOLEAN : \E audit_ok2 \in BOOLEAN :
          RefreshToken(token, audit_ok, audit_ok2) /\ UNCHANGED user_roles
    \/ \E u \in Users : \E name \in RoleNames : GrantRole(u, name)
    \/ \E u \in Users : \E name \in RoleNames : RevokeRole(u, name)
    \/ \E u \in Users : EnableMfa(u)
    \/ Tick /\ UNCHANGED user_roles

NextAdministration ==
    AdministrationStep /\ UNCHANGED rlvars /\ UNCHANGED convars /\ UNCHANGED encvars

(***************************************************************************)
(* Logins in flight at the same time.  Each request has its own            *)
(* AsyncSession (get_session): it loads the users row with a plain SELECT  *)
(* (no FOR UPDATE, no version column), changes the loaded object and       *)
(* commits; the UPDATE of the commit carries the columns whose value       *)
(* differs from the loaded one.  The steps follow the store; the responses *)
(* are those of login above.                                               *)
(***************************************************************************)
NoRow ==
    [failed_login_attempts |-> 0, locked_until |-> None,
     hashed_password |-> [pw |-> "none", params |-> "none"],
     mfa_enabled |-> FALSE, mfa_secret |-> 0,
     is_active |-> FALSE, password_changed_at |-> 0]

\* UPDATE users SET <changed columns> WHERE id = ...
WriteBack(stored, loaded, changed) ==
    [f \in DOMAIN stored |-> IF changed[f] # loaded[f] THEN changed[f] ELSE stored[f]]

\* select(User).where(User.username == ...), then the lock test on the loaded row
LoginLoad(w, username, password) ==
    /\ lpc[w] = "idle"
    /\ ~verify_password(password, users[username].hashed_password)
          => increments + Cardinality({v \in Workers : lpc[v] = "loaded"}) < MaxAttempts
    /\ IF IsLocked(users[username], clock)
       THEN UNCHANGED <<lpc, lrow, lpw>>
       ELSE /\ lpc' = [lpc EXCEPT ![w] = "loaded"]
            /\ lrow' = [lrow EXCEPT ![w] = users[username]]
            /\ lpw' = [lpw EXCEPT ![w] = password]
    /\ UNCHANGED <<clock, users, sessions, tokens, njti, streak, last, increments>>

\* user.failed_login_attempts += 1; ...; await db.commit()
LoginCommitFailure(w, username) ==
    /\ lpc[w] = "loaded"
    /\ ~verify_password(lpw[w], lrow[w].hashed_password)
    /\ lrow[w].failed_login_attempts < MaxFailed
    /\ users' = [users EXCEPT
                    ![username] = WriteBack(@, lrow[w], FailedLogin(lrow[w], clock))]
    /\ increments' = increments + 1
    /\ lpc' = [lpc EXCEPT ![w] = "idle"]
    /\ lrow' = [lrow EXCEPT ![w] = NoRow]
    /\ lpw' = [lpw EXCEPT ![w] = "none"]
    /\ UNCHANGED <<clock, sessions, tokens, njti, streak, last>>

\* db.add(session); user.failed_login_attempts = 0; user.locked_until = None;
\* await db.commit(), for a request that passed the MFA step
LoginCommitSuccess(w, username) ==
    /\ lpc[w] = "loaded"
    /\ verify_password(lpw[w], lrow[w].hashed_password)
    /\ Len(sessions) < MaxSessions
    /\ users' = [users EXCEPT
                    ![username] = WriteBack(@, lrow[w],
                                      SuccessfulLogin(Rehashed(lrow[w], lpw[w]), clock))]
    /\ sessions' = Append(sessions, NewSession(Len(sessions) + 1, username, clock))
    /\ lpc' = [lpc EXCEPT ![w] = "idle"]
    /\ lrow' = [lrow EXCEPT ![w] = NoRow]
    /\ lpw' = [lpw EXCEPT ![w] = "none"]
    /\ UNCHANGED <<clock, tokens, njti, streak, last, increments>>

ConTick ==
    /\ clock < MaxClock
    /\ clock' = clock + 1
    /\ UNCHANGED <<users, sessions, tokens, njti, streak, last>>
    /\ UNCHANGED convars

ConcurrentStep ==
    \/ \E w \in Workers : \E username \in Users : \E password \in LoginPasswords :
          LoginLoad(w, username, password)
    \/ \E w \in Workers : \E username \in Users : LoginCommitFailure(w, username)
    \/ \E w \in Workers : \E username \in Users : LoginCommitSuccess(w, username)
    \/ ConTick

NextConcurrent ==
    ConcurrentStep /\ UNCHANGED user_roles /\ UNCHANGED rlvars /\ UNCHANGED encvars

InitCon ==
    /\ lpc = [w \in Workers |-> "idle"]
    /\ lrow = [w \in Workers |-> NoRow]
    /\ lpw = [w \in Workers |-> "none"]
    /\ increments = 0

(***************************************************************************)
(* MedicalDataEncryption (app/core/encryption.py)                          *)
(*                                                                         *)
(* A str is a sequence of code points and bytes are a sequence of 0..255;  *)
(* UTF-8 is computed.  AES-256-GCM and PBKDF2 are taken as ideal: a        *)
(* ciphertext opens under the key and nonce that made it and under no      *)
(* other, two derivations agree only when master key and salt agree, and   *)
(* secrets.token_bytes never returns a value twice.  The methods are plain *)
(* synchronous code without a lock; calls from several threads interleave  *)
(* between statements.                                                     *)
(***************************************************************************)
data_types ==
    <<"patient_name", "patient_phone", "patient_address", "patient_email",
      "medical_record", "prescription_data", "lab_result", "session_data",
      "audit_details">>

\* context.encode('utf-8').ljust(16, b'\0')[:16]: the first 16 bytes of the
\* label, zero padding left out
Salt(context) ==
    CASE context = "prescription_data" -> "prescription_dat"
      [] OTHER -> context

NoKey == [master |-> 0, salt |-> ""]

\* PBKDF2HMAC(SHA256, length=32, salt, iterations=100000).derive(key material)
PBKDF2HMAC(key_material, salt) == [master |-> key_material, salt |-> salt]

_derive_key(context) == PBKDF2HMAC(master_key, Salt(context))

\* encryption_keys once _initialize_keys has run to its end on the master key m
InitializedKeys(m) ==
    [data_type \in Range(data_types) |-> PBKDF2HMAC(m, Salt(data_type))]

\* Values of fields: None, a str of code points, or the str that
\* base64.b64encode(nonce + ciphertext) returned.  `bytes` is the plaintext
\* under the cipher and `key` the key that sealed it; `intact` is false for a
\* blob that lost characters.
NoneValue ==
    [kind |-> "None", s |-> <<>>, nonce |-> 0, key |-> NoKey, bytes |-> <<>>,
     intact |-> TRUE]

Text(s) == [NoneValue EXCEPT !.kind = "str", !.s = s]

\* `not data`
Falsy(v) == v.kind = "None" \/ (v.kind = "str" /\ v.s = <<>>)

\* str.encode('utf-8') of one code point; lone surrogates cannot be encoded
Surrogate(cp) == 55296 <= cp /\ cp <= 57343

Encodable(s) == \A i \in 1..Len(s) : ~Surrogate(s[i])

EncodeChar(cp) ==
    IF cp < 128 THEN <<cp>>
    ELSE IF cp < 2048 THEN <<192 + (cp \div 64), 128 + (cp % 64)>>
    ELSE IF cp < 65536
         THEN <<224 + (cp \div 4096), 128 + ((cp \div 64) % 64), 128 + (cp % 64)>>
    ELSE <<240 + (cp \div 262144), 128 + ((cp \div 4096) % 64),
           128 + ((cp \div 64) % 64), 128 + (cp % 64)>>

RECURSIVE encode(_)
encode(s) == IF s = <<>> THEN <<>> ELSE EncodeChar(Head(s)) \o encode(Tail(s))

\* bytes.decode('utf-8') of a well-formed sequence
SeqLen(lead) == IF lead < 128 THEN 1 ELSE IF lead < 224 THEN 2
                ELSE IF lead < 240 THEN 3 ELSE 4

DecodeChar(b) ==
    IF Len(b) = 1 THEN b[1]
    ELSE IF Len(b) = 2 THEN (b[1] - 192) * 64 + (b[2] - 128)
    ELSE IF Len(b) = 3 THEN (b[1] - 224) * 4096 + (b[2] - 128) * 64 + (b[3] - 128)
    ELSE (b[1] - 240) * 262144 + (b[2] - 128) * 4096 + (b[3] - 128) * 64 + (b[4] - 128)

RECURSIVE decode(_)
decode(b) ==
    IF b = <<>> THEN <<>>
    ELSE LET n == SeqLen(b[1])
         IN <<DecodeChar(SubSeq(b, 1, n))>> \o decode(SubSeq(b, n + 1, Len(b)))

Returned(value) == [ok |-> TRUE, value |-> value, error |-> "none"]
RuntimeError(message) == [ok |-> FALSE, value |-> NoneValue, error |-> message]

\* encrypt_field; nonce is the value of secrets.token_bytes(12)
encrypt_field(data, field_type, nonce) ==
    IF Falsy(data) THEN Returned(data)
    ELSE IF field_type \notin DOMAIN encryption_keys
         THEN RuntimeError("Encryption failed")
    ELSE IF ~Encodable(data.s) THEN RuntimeError("Encryption failed")
    ELSE Returned([kind |-> "b64str", s |-> <<>>, nonce |-> nonce,
                   key |-> encryption_keys[field_type],
                   bytes |-> encode(data.s), intact |-> TRUE])

\* a decrypt_field that does not authenticate the key
decrypt_field_any_key(encrypted_data, field_type) ==
    IF Falsy(encrypted_data) THEN Returned(encrypted_data)
    ELSE IF encrypted_data.kind # "b64str" THEN RuntimeError("Decryption failed")
    ELSE Returned(Text(decode(encrypted_data.bytes)))

\* decrypt_field: b64decode, nonce = first 12 bytes, AESGCM(key).decrypt
decrypt_field(encrypted_data, field_type) ==
    IF Falsy(encrypted_data) THEN Returned(encrypted_data)
    ELSE IF field_type \notin DOMAIN encryption_keys
         THEN RuntimeError("Decryption failed")
    \* a str that is not the base64 of nonce + ciphertext + tag
    ELSE IF encrypted_data.kind # "b64str" THEN RuntimeError("Decryption failed")
    \* InvalidTag
    ELSE IF ~encrypted_data.intact \/ encrypted_data.key # encryption_keys[field_type]
         THEN RuntimeError("Decryption failed")
    ELSE Returned(Text(decode(encrypted_data.bytes)))

sensitive_fields ==
    [field \in {"family_name", "given_name", "family_name_kana", "given_name_kana",
                "phone_number", "emergency_contact_phone", "address", "email"} |->
        CASE field \in {"family_name", "given_name", "family_name_kana",
                        "given_name_kana"} -> "patient_name"
          [] field \in {"phone_number", "emergency_contact_phone"} -> "patient_phone"
          [] field = "address" -> "patient_address"
          [] OTHER -> "patient_email"]

\* a bulk decryption that gives up on the first field that fails
decrypt_patient_data_aborting(encrypted_data) ==
    IF \E field \in DOMAIN encrypted_data \cap DOMAIN sensitive_fields :
          ~decrypt_field(encrypted_data[field], sensitive_fields[field]).ok
    THEN [ok |-> FALSE, record |-> encrypted_data]
    ELSE [ok |-> TRUE,
          record |-> [field \in DOMAIN encrypted_data |->
                        IF field \in DOMAIN sensitive_fields
                        THEN decrypt_field(encrypted_data[field],
                                           sensitive_fields[field]).value
                        ELSE encrypted_data[field]]]

\* decrypt_patient_data: the copy of the dict with each sensitive field that
\* is present and truthy replaced by its plaintext, or kept when decrypt_field
\* raised
decrypt_patient_data(encrypted_data) ==
    [ok |-> TRUE,
     record |-> [field \in DOMAIN encrypted_data |->
                   IF field \in DOMAIN sensitive_fields /\ ~Falsy(encrypted_data[field])
                   THEN LET r == decrypt_field(encrypted_data[field],
                                               sensitive_fields[field])
                        IN IF r.ok THEN r.value ELSE encrypted_data[field]
                   ELSE encrypted_data[field]]]

EmptyRecord == [field \in {} |-> NoneValue]

NoCall ==
    [op |-> "none", data |-> NoneValue, field_type |-> "none", ok |-> TRUE,
     value |-> NoneValue, master |-> 0, key |-> NoKey, rotating |-> FALSE,
     record |-> EmptyRecord, result |-> EmptyRecord]

\* master and rotating: the master key when the call ran, and whether a
\* rotate_keys was under way
Call(op) == [NoCall EXCEPT !.op = op, !.master = master_key,
                            !.rotating = rotating # 0]

KeyOf(field_type) ==
    IF field_type \in DOMAIN encryption_keys THEN encryption_keys[field_type] ELSE NoKey

\* The str values a caller holds: blobs it was given, a blob cut short, None,
\* the empty str and a str that was never encrypted
Truncated(blob) == [blob EXCEPT !.intact = FALSE]

StoredValues ==
    {h.blob : h \in made} \cup {Truncated(h.blob) : h \in made}
        \cup {NoneValue, Text(<<>>), Text(<<84, 97>>)}

EncryptField(data, field_type) ==
    LET r == encrypt_field(data, field_type, nrandom + 1)
        sealed == r.ok /\ r.value.kind = "b64str"
    IN /\ sealed => (Cardinality(made) < MaxBlobs /\ nrandom < MaxRandom)
       /\ nrandom' = IF sealed THEN nrandom + 1 ELSE nrandom
       /\ made' = IF sealed
                  THEN made \cup {[data |-> data, field_type |-> field_type,
                                   blob |-> r.value, master |-> master_key,
                                   rotating |-> rotating # 0]}
                  ELSE made
       /\ enc_last' = [Call("encrypt_field") EXCEPT
                         !.data = data, !.field_type = field_type,
                         !.ok = r.ok, !.value = r.value, !.key = KeyOf(field_type)]
       /\ UNCHANGED <<master_key, encryption_keys, master_key_file, rotating>>

DecryptField(encrypted_data, field_type) ==
    LET r == decrypt_field(encrypted_data, field_type)
    IN /\ enc_last' = [Call("decrypt_field") EXCEPT
                         !.data = encrypted_data, !.field_type = field_type,
                         !.ok = r.ok, !.value = r.value, !.key = KeyOf(field_type)]
       /\ UNCHANGED <<master_key, encryption_keys, master_key_file, rotating,
                      nrandom, made>>

DecryptPatientData(encrypted_data) ==
    LET r == decrypt_patient_data(encrypted_data)
    IN /\ enc_last' = [Call("decrypt_patient_data") EXCEPT
                         !.ok = r.ok, !.record = encrypted_data, !.result = r.record]
       /\ UNCHANGED <<master_key, encryption_keys, master_key_file, rotating,
                      nrandom, made>>

\* rotate_keys up to self.master_key = secrets.token_bytes(32)
RotateKeysStart ==
    /\ rotating = 0
    /\ nrandom < MaxRandom
    /\ master_key' = nrandom + 1
    /\ nrandom' = nrandom + 1
    /\ rotating' = 1
    /\ enc_last' = [NoCall EXCEPT !.op = "rotate_keys", !.master = nrandom + 1,
                                  !.rotating = TRUE]
    /\ UNCHANGED <<encryption_keys, master_key_file, made>>

\* one round of the loop of _initialize_keys; after the last one rotate_keys
\* returns
RotateKeysDerive ==
    /\ rotating # 0
    /\ encryption_keys' = [encryption_keys EXCEPT
                              ![data_types[rotating]] = _derive_key(data_types[rotating])]
    /\ rotating' = IF rotating = Len(data_types) THEN 0 ELSE rotating + 1
    /\ enc_last' = [NoCall EXCEPT !.op = "rotate_keys", !.master = master_key,
                                  !.rotating = rotating # Len(data_types)]
    /\ UNCHANGED <<master_key, master_key_file, nrandom, made>>

\* The process ends and a new one builds MedicalDataEncryption():
\* _get_or_generate_master_key finds the key file and reads it
Restart ==
    /\ master_key' = master_key_file
    /\ encryption_keys' = InitializedKeys(master_key_file)
    /\ rotating' = 0
    /\ enc_last' = [NoCall EXCEPT !.op = "restart", !.master = master_key_file]
    /\ UNCHANGED <<master_key_file, nrandom, made>>

\* patient rows as the callers pass them: a non-sensitive id and two of the
\* sensitive fields
PatientRecords ==
    {[field \in {"id", "family_name", "phone_number"} |->
         IF field = "id" THEN id
         ELSE IF field = "family_name" THEN family_name ELSE phone_number] :
        id \in {Text(<<49>>)}, family_name \in StoredValues, phone_number \in StoredValues}

EncryptionStep ==
    \/ \E data \in Plaintexts \cup {NoneValue, Text(<<>>)} : \E field_type \in FieldTypes :
          EncryptField(data, field_type)
    \/ \E encrypted_data \in StoredValues : \E field_type \in FieldTypes :
          DecryptField(encrypted_data, field_type)
    \/ \E encrypted_data \in PatientRecords : DecryptPatientData(encrypted_data)
    \/ RotateKeysStart
    \/ RotateKeysDerive
    \/ Restart

NextEncryption ==
    /\ EncryptionStep
    /\ UNCHANGED rlvars /\ UNCHANGED authvars /\ UNCHANGED convars

\* MedicalDataEncryption(): the key file is read, or written with a new key
InitEnc ==
    /\ master_key = 1
    /\ master_key_file = 1
    /\ encryption_keys = InitializedKeys(1)
    /\ rotating = 0
    /\ nrandom = 1
    /\ made = {}
    /\ enc_last = NoCall


\* C21: under one key set (no rotate_keys running or run in between),
\* decrypt_field(encrypt_field(s, c), c) = s for every non-empty plaintext s and
\* configured label c; decrypt_field of that blob under another configured
\* label is an error; None and the empty str come back unchanged from both;
\* an unknown label is an error in both.
C21_RoundTrip ==
    /\ \A h \in made :
          (~h.rotating /\ rotating = 0 /\ h.master = master_key)
          => /\ decrypt_field(h.blob, h.field_type) = Returned(h.data)
             /\ \A c2 \in Range(data_types) \ {h.field_type} :
                   ~decrypt_field(h.blob, c2).ok
    /\ (/\ enc_last.op = "decrypt_field"
        /\ ~enc_last.rotating
        /\ \E h \in made : /\ h.blob = enc_last.data
                            /\ ~h.rotating
                            /\ h.master = enc_last.master)
       => \A h \in made :
             h.blob = enc_last.data
             => IF h.field_type = enc_last.field_type
                THEN enc_last.ok /\ enc_last.value = h.data
                ELSE ~enc_last.ok
    /\ \A v \in {NoneValue, Text(<<>>)} : \A c \in Range(data_types) \cup FieldTypes :
          /\ encrypt_field(v, c, nrandom + 1) = Returned(v)
          /\ decrypt_field(v, c) = Returned(v)
    /\ \A c \in FieldTypes \ Range(data_types) :
          /\ \A data \in Plaintexts : ~encrypt_field(data, c, nrandom + 1).ok
          /\ \A h \in made : ~decrypt_field(h.blob, c).ok
    /\ (/\ enc_last.op \in {"encrypt_field", "decrypt_field"}
        /\ enc_last.field_type \notin Range(data_types))
       => IF Falsy(enc_last.data)
          THEN enc_last.ok /\ enc_last.value = enc_last.data
          ELSE ~enc_last.ok

\* C21 witness: decrypt_field returned the plaintext, with characters of
\* three and four UTF-8 bytes, of a blob that encrypt_field had made under the
\* same label.
C21_Witness ==
    /\ enc_last.op = "decrypt_field"
    /\ enc_last.ok
    /\ enc_last.data.kind = "b64str"
    /\ enc_last.value.kind = "str"
    /\ Len(enc_last.value.s) = 4
    /\ Len(enc_last.data.bytes) = 12
    /\ \E h \in made : /\ h.blob = enc_last.data
                        /\ h.field_type = enc_last.field_type
                        /\ h.data = enc_last.value

\* C23: every encrypt_field and decrypt_field call, also one that runs while
\* rotate_keys does, works with the key derived from the master key in place
\* at the time of the call; and once a rotation is over, decrypt_field fails
\* on a blob that was encrypted before that rotation.
C23_RotationIsAtomic ==
    /\ (/\ enc_last.op \in {"encrypt_field", "decrypt_field"}
        /\ ~Falsy(enc_last.data)
        /\ enc_last.field_type \in Range(data_types))
       => enc_last.key = PBKDF2HMAC(enc_last.master, Salt(enc_last.field_type))
    /\ (/\ enc_last.op = "decrypt_field"
        /\ ~enc_last.rotating
        /\ enc_last.field_type \in Range(data_types))
       => \A h \in made :
             (h.blob = enc_last.data /\ ~h.rotating /\ h.master # enc_last.master)
             => ~enc_last.ok

\* Whether decrypt_field raises for the stored value v of the sensitive field
FieldFails(v, field) == ~decrypt_field(v, sensitive_fields[field]).ok

\* C25: decrypt_patient_data always returns a record with the fields of its
\* argument: a sensitive field for which decrypt_field raised keeps its stored
\* value, every other sensitive field holds what decrypt_field returned, and
\* the other fields are unchanged.
C25_PerFieldFailureNonFatal ==
    enc_last.op = "decrypt_patient_data"
    => /\ enc_last.ok
       /\ DOMAIN enc_last.result = DOMAIN enc_last.record
       /\ \A field \in DOMAIN enc_last.record :
             IF field \notin DOMAIN sensitive_fields
             THEN enc_last.result[field] = enc_last.record[field]
             ELSE IF FieldFails(enc_last.record[field], field)
             THEN enc_last.result[field] = enc_last.record[field]
             ELSE enc_last.result[field]
                     = decrypt_field(enc_last.record[field],
                                     sensitive_fields[field]).value

\* C25 witness: of the two sensitive fields of a record one could not be
\* decrypted and was left as stored, the other came back as plaintext.
C25_Witness ==
    /\ enc_last.op = "decrypt_patient_data"
    /\ enc_last.ok
    /\ \E f1 \in DOMAIN enc_last.record : \E f2 \in DOMAIN enc_last.record :
          /\ f1 \in DOMAIN sensitive_fields /\ f2 \in DOMAIN sensitive_fields
          /\ enc_last.record[f1].kind = "b64str"
          /\ FieldFails(enc_last.record[f1], f1)
          /\ enc_last.result[f1] = enc_last.record[f1]
          /\ enc_last.record[f2].kind = "b64str"
          /\ enc_last.result[f2].kind = "str"
          /\ enc_last.result[f2] \in Plaintexts

\* C29: whenever no rotate_keys is under way, the key in the key file is the
\* master key in memory, so that a restart loads the key set last in use.
C29_PersistedKeyIsCurrent ==
    rotating = 0 => master_key_file = master_key

Init == InitRL /\ InitAuth /\ InitCon /\ InitEnc

\* The rate limiter does not read the user store: one account is enough
InitRateLimiter == InitRL /\ InitAuthWith({FALSE}, {TRUE}) /\ InitCon /\ InitEnc

SpecRateLimiter == InitRateLimiter /\ [][NextRL]_vars

Spec == Init /\ [][NextAuth]_vars

SpecHandlers == Init /\ [][NextHandlers]_vars

SpecConcurrentLogin == Init /\ [][NextConcurrent]_vars

SpecAdministration == Init /\ [][NextAdministration]_vars

\* The encryption service does not read the user store: one account is enough
InitEncryption == InitRL /\ InitAuthWith({FALSE}, {TRUE}) /\ InitCon /\ InitEnc

SpecEncryption == InitEncryption /\ [][NextEncryption]_vars

====
